---- MODULE Spec2Model ----
(***************************************************************************)
(* Contacts backend: the contact table, the repository functions of        *)
(* src/repository/contacts.py and the routes of src/routes/contacts.py.    *)
(*                                                                         *)
(* Text values are sequences of one-character strings.  Dates are records  *)
(* [y, m, d] of the proleptic Gregorian calendar, as datetime.date.        *)
(* The contact table is a sequence in store (insertion / id) order; every  *)
(* query without ORDER BY returns its rows in that order.  Ids come from   *)
(* a counter that never hands an id out twice.  The characters used have   *)
(* no upper/lower case, so the collation of LIKE plays no part.  A call of *)
(* get_birthday_per_week reads the clock on one calendar day.  The store   *)
(* accepts the user_id that update_contact writes.                         *)
(***************************************************************************)
EXTENDS Integers, Sequences, FiniteSets, TLC

VARIABLES contacts, nextId, createdBy, today, ticks, call, ret, status,
          finder, seen

vars == <<contacts, nextId, createdBy, today, ticks, call, ret, status,
          finder, seen>>

(* ------------------------------ bounds --------------------------------- *)

\* Number of rows ever inserted (ids run 1..MaxContacts).
MaxContacts == 2

\* Largest value of the days path parameter that is tried.
MaxWindow == 2

\* Number of midnights the clock passes.
MaxTicks == 1

\* Number of further table states committed while one find request is in
\* flight.
MaxCommits == 1

(* ------------------------------ calendar ------------------------------- *)

D(y, m, d) == [y |-> y, m |-> m, d |-> d]

IsLeap(y) == (y % 4 = 0) /\ ((y % 100 # 0) \/ (y % 400 = 0))

DaysInMonth(y, m) ==
    IF m = 2 THEN (IF IsLeap(y) THEN 29 ELSE 28)
    ELSE IF m \in {4, 6, 9, 11} THEN 30 ELSE 31

\* Days of year y that precede the first day of month m.
RECURSIVE DaysBeforeMonth(_, _)
DaysBeforeMonth(y, m) ==
    IF m = 1 THEN 0 ELSE DaysBeforeMonth(y, m - 1) + DaysInMonth(y, m - 1)

\* Days before January 1st of year y (year 1 is the first year).
DaysBeforeYear(y) ==
    LET p == y - 1 IN p * 365 + (p \div 4) - (p \div 100) + (p \div 400)

\* date.toordinal()
Ordinal(dt) == DaysBeforeYear(dt.y) + DaysBeforeMonth(dt.y, dt.m) + dt.d

\* date - date, as a number of days (timedelta.days)
DateSub(a, b) == Ordinal(a) - Ordinal(b)

ValidDate(dt) ==
    /\ dt.m \in 1..12
    /\ dt.d \in 1..DaysInMonth(dt.y, dt.m)

\* date.replace(year=y) succeeds exactly when the new date exists.
CanReplaceYear(dt, y) == ValidDate(D(y, dt.m, dt.d))

ReplaceYear(dt, y) == D(y, dt.m, dt.d)

\* The calendar day after dt.
NextDay(dt) ==
    IF dt.d < DaysInMonth(dt.y, dt.m) THEN D(dt.y, dt.m, dt.d + 1)
    ELSE IF dt.m < 12 THEN D(dt.y, dt.m + 1, 1)
    ELSE D(dt.y + 1, 1, 1)

\* date + timedelta(days=k), k >= 0
RECURSIVE AddDays(_, _)
AddDays(dt, k) == IF k = 0 THEN dt ELSE AddDays(NextDay(dt), k - 1)

(* ------------------------------ text ----------------------------------- *)

\* SQL LIKE: '%' matches any run of characters, '_' any one character.
RECURSIVE LikeMatch(_, _)
LikeMatch(p, s) ==
    IF p = <<>> THEN s = <<>>
    ELSE IF Head(p) = "%"
         THEN LikeMatch(Tail(p), s) \/ (s # <<>> /\ LikeMatch(p, Tail(s)))
         ELSE /\ s # <<>>
              /\ (Head(p) = "_" \/ Head(p) = Head(s))
              /\ LikeMatch(Tail(p), Tail(s))

\* column.like(f'%{some_info}%')
Like(field, some_info) == LikeMatch(<<"%">> \o some_info \o <<"%">>, field)

\* f occurs in s as a contiguous run of characters, taken literally.
Contains(s, f) ==
    \E i \in 0..(Len(s) - Len(f)) : SubSeq(s, i + 1, i + Len(f)) = f

(* ------------------------------ inputs --------------------------------- *)

Users == {1, 2}

Body(fn, sn, em, ph, bd, ds) ==
    [first_name |-> fn, second_name |-> sn, email |-> em,
     phone |-> ph, birthday |-> bd, description |-> ds]

\* Request bodies (ContactModel) that are submitted.
Bodies ==
    { Body(<<"a", "b">>, <<"b">>, <<"a", "@">>, <<"1">>, D(2023, 12, 31), <<"x">>),
      Body(<<"a", "_">>, <<>>, <<"%", "@">>, <<"2">>, D(2024, 1, 2), <<>>),
      Body(<<"c">>, <<"c">>, <<"c", "@">>, <<"1">>, D(2024, 2, 29), <<"x">>) }

NoDate == D(1, 1, 1)

NoBody == Body(<<>>, <<>>, <<>>, <<>>, NoDate, <<>>)

\* Values of the some_info path parameter.
Fragments == { <<>>, <<"a", "b">>, <<"_">>, <<"%">> }

\* Values of the days path parameter.
Windows == 0..MaxWindow

\* The date on which the service is started.
StartDate == D(2023, 12, 31)

ContactIds == 1..MaxContacts

(* ------------------------------ results -------------------------------- *)

\* What a repository function hands back: a list, one contact, None, or an
\* exception that leaves the function.
List(s)     == [kind |-> "list", val |-> s, exc |-> ""]
One(c)      == [kind |-> "contact", val |-> <<c>>, exc |-> ""]
None        == [kind |-> "none", val |-> <<>>, exc |-> ""]
Raise(e)    == [kind |-> "raise", val |-> <<>>, exc |-> e]

\* A request: the operation, the current user, the path and body parameters,
\* and the date datetime.now() gave the request (NoDate when it read none).
Call(o, u, id, info, days, body, now) ==
    [op |-> o, user |-> u, contact_id |-> id, some_info |-> info,
     days |-> days, body |-> body, now |-> now]

(* ------------------------------ store queries -------------------------- *)

\* db.query(Contact).filter(Contact.user_id == user.id).all()
AllByOwner(store, u) == SelectSeq(store, LAMBDA c : c.user_id = u)

\* Variant of FirstByIdAndOwner without the owner condition of the filter.
FirstById(store, contact_id, u) ==
    LET hits == SelectSeq(store, LAMBDA c : c.id = contact_id)
    IN  IF hits = <<>> THEN [kind |-> "none", val |-> <<>>, exc |-> ""]
        ELSE [kind |-> "contact", val |-> <<Head(hits)>>, exc |-> ""]

\* db.query(Contact).filter(and_(Contact.id == contact_id,
\*                               Contact.user_id == user.id)).first()
FirstByIdAndOwner(store, contact_id, u) ==
    LET hits == SelectSeq(store, LAMBDA c : c.id = contact_id /\ c.user_id = u)
    IN  IF hits = <<>> THEN None ELSE One(Head(hits))

\* db.query(Contact).filter(and_(Contact.<field>.like(...),
\*                               Contact.user_id == user.id)).all()
LikeByOwner(store, field, some_info, u) ==
    SelectSeq(store, LAMBDA c : Like(c[field], some_info) /\ c.user_id = u)

(* ------------------------------ repository ----------------------------- *)

get_contact(contact_id, store, u) == FirstByIdAndOwner(store, contact_id, u)

NewContact(body, id, u) ==
    [id |-> id, user_id |-> u,
     first_name |-> body.first_name, second_name |-> body.second_name,
     email |-> body.email, phone |-> body.phone,
     birthday |-> body.birthday, description |-> body.description]

\* Variant of get_contact_by_some_info that lists every matching contact
\* once.
get_contact_by_some_info_dedup(some_info, store, u) ==
    List(SelectSeq(store, LAMBDA c :
            /\ c.user_id = u
            /\ \/ Like(c.first_name, some_info)
               \/ Like(c.second_name, some_info)
               \/ Like(c.email, some_info)))

get_contact_by_some_info(some_info, store, u) ==
    List(LikeByOwner(store, "first_name", some_info, u)
         \o LikeByOwner(store, "second_name", some_info, u)
         \o LikeByOwner(store, "email", some_info, u))

\* Variant of BirthdayHit that moves a birthday already passed this year
\* into the next year.
BirthdayHit_wrap(cont, days, now) ==
    LET this == DateSub(ReplaceYear(cont.birthday, now.y), now)
        delta == IF this < 0
                 THEN DateSub(ReplaceYear(cont.birthday, now.y + 1), now)
                 ELSE this
    IN  0 <= delta /\ delta <= days

\* The loop's test for one contact; now is datetime.now().date().
BirthdayHit(cont, days, now) ==
    LET delta == DateSub(ReplaceYear(cont.birthday, now.y), now)
    IN  0 <= delta /\ delta <= days

get_birthday_per_week(days, store, u, now) ==
    LET all_contacts == AllByOwner(store, u)
    IN  IF \E i \in 1..Len(all_contacts) :
              ~CanReplaceYear(all_contacts[i].birthday, now.y)
        THEN Raise("ValueError")
        ELSE List(SelectSeq(all_contacts, LAMBDA c : BirthdayHit(c, days, now)))

\* Variant of UpdatedContact that leaves the phone as it was.
UpdatedContact_keep_phone(contact, body) ==
    [contact EXCEPT !.first_name = body.first_name,
                    !.second_name = body.second_name,
                    !.email = body.email,
                    !.birthday = body.birthday,
                    !.description = body.description,
                    !.user_id = contact.id]

\* The row update_contact writes for a contact it found.
UpdatedContact(contact, body) ==
    [contact EXCEPT !.first_name = body.first_name,
                    !.second_name = body.second_name,
                    !.email = body.email,
                    !.phone = body.phone,
                    !.birthday = body.birthday,
                    !.description = body.description,
                    !.user_id = contact.id]

\* The table after the row with the given id is replaced by row.
ReplaceRow(store, id, row) ==
    [i \in 1..Len(store) |-> IF store[i].id = id THEN row ELSE store[i]]

\* The table after db.delete of the row with the given id.
DeleteRow(store, id) == SelectSeq(store, LAMBDA c : c.id # id)

(* ------------------------------ requests in flight -------------------- *)

\* How the session of a request isolates its statements: each statement
\* reads what is committed when it runs, or all read what was committed
\* when the first one ran.  The source does not fix which.
Isolations == {"statement", "transaction"}

\* No find request is between its queries.
Idle == [pc |-> "idle", user |-> 0, some_info |-> <<>>, response |-> <<>>,
         isolation |-> "none", begin |-> <<>>]

\* The table a later statement of the request in flight reads, store being
\* the committed table.
SessionRead(store) ==
    IF finder.isolation = "transaction" THEN finder.begin ELSE store

\* The committed table states that existed during the find request in
\* flight, once the table has become store; they are forgotten at the
\* first commit after the request has returned.
Observed(store) == IF finder.pc = "idle" THEN {} ELSE seen \cup {store}

\* A commit may happen: the model follows at most MaxCommits further table
\* states during one find request.
CanCommit == finder.pc = "idle" \/ Cardinality(seen) <= MaxCommits

(* ------------------------------ routes --------------------------------- *)

\* "if contacts is None: raise HTTPException(404)" ; an exception that
\* leaves the handler is answered with 500.
RouteStatus(r) ==
    IF r.kind = "raise" THEN 500
    ELSE IF r.kind = "none" THEN 404
    ELSE 200

Init ==
    /\ contacts = <<>>
    /\ nextId = 1
    /\ createdBy = [i \in ContactIds |-> 0]
    /\ today = StartDate
    /\ ticks = 0
    /\ call = Call("start", 0, 0, <<>>, 0, NoBody, NoDate)
    /\ ret = None
    /\ status = 0
    /\ finder = Idle
    /\ seen = {}

\* POST /contacts/
CreateContact ==
    \E u \in Users, body \in Bodies :
        /\ nextId <= MaxContacts
        /\ LET contact == NewContact(body, nextId, u)
           IN  /\ contacts' = Append(contacts, contact)
               /\ ret' = One(contact)
        /\ createdBy' = [createdBy EXCEPT ![nextId] = u]
        /\ nextId' = nextId + 1
        /\ call' = Call("create_contact", u, 0, <<>>, 0, body, NoDate)
        /\ status' = 201
        /\ CanCommit
        /\ seen' = Observed(contacts')
        /\ UNCHANGED <<today, ticks, finder>>

\* PUT /contacts/put/{contact_id}
UpdateContact ==
    \E u \in Users, contact_id \in ContactIds, body \in Bodies :
        LET found == FirstByIdAndOwner(contacts, contact_id, u)
        IN  /\ IF found.kind = "contact"
               THEN LET row == UpdatedContact(found.val[1], body)
                    IN  /\ contacts' = ReplaceRow(contacts, contact_id, row)
                        /\ ret' = One(row)
               ELSE /\ contacts' = contacts
                    /\ ret' = None
            /\ call' = Call("update_contact", u, contact_id, <<>>, 0, body, NoDate)
            /\ status' = RouteStatus(ret')
            /\ CanCommit
            /\ seen' = Observed(contacts')
            /\ UNCHANGED <<nextId, createdBy, today, ticks, finder>>

\* DELETE /contacts/remove/{contact_id}
RemoveContact ==
    \E u \in Users, contact_id \in ContactIds :
        LET found == FirstByIdAndOwner(contacts, contact_id, u)
        IN  /\ IF found.kind = "contact"
               THEN contacts' = DeleteRow(contacts, contact_id)
               ELSE contacts' = contacts
            /\ ret' = found
            /\ call' = Call("remove_contact", u, contact_id, <<>>, 0, NoBody, NoDate)
            /\ status' = RouteStatus(ret')
            /\ CanCommit
            /\ seen' = Observed(contacts')
            /\ UNCHANGED <<nextId, createdBy, today, ticks, finder>>

\* GET /contacts/{contact_id}
ReadContact ==
    \E u \in Users, contact_id \in ContactIds :
        /\ ret' = get_contact(contact_id, contacts, u)
        /\ call' = Call("get_contact", u, contact_id, <<>>, 0, NoBody, NoDate)
        /\ status' = RouteStatus(ret')
        /\ UNCHANGED <<contacts, nextId, createdBy, today, ticks, finder, seen>>

\* GET /contacts/find/{some_info}
FindContactBySomeInfo ==
    \E u \in Users, some_info \in Fragments :
        /\ ret' = get_contact_by_some_info(some_info, contacts, u)
        /\ call' = Call("get_contact_by_some_info", u, 0, some_info, 0, NoBody, NoDate)
        /\ status' = RouteStatus(ret')
        /\ UNCHANGED <<contacts, nextId, createdBy, today, ticks, finder, seen>>

\* Variant of FindBirthdayPerWeek that deletes the rows it reports.
FindBirthdayPerWeek_purge ==
    \E u \in Users, days \in Windows :
        /\ ret' = get_birthday_per_week(days, contacts, u, today)
        /\ call' = Call("get_birthday_per_week", u, 0, <<>>, days, NoBody, today)
        /\ status' = RouteStatus(ret')
        /\ contacts' = SelectSeq(contacts, LAMBDA c :
                            \A i \in 1..Len(ret'.val) : ret'.val[i] # c)
        /\ UNCHANGED <<nextId, createdBy, today, ticks, finder, seen>>

\* GET /contacts/birthday/{days}
FindBirthdayPerWeek ==
    \E u \in Users, days \in Windows :
        /\ ret' = get_birthday_per_week(days, contacts, u, today)
        /\ call' = Call("get_birthday_per_week", u, 0, <<>>, days, NoBody, today)
        /\ status' = RouteStatus(ret')
        /\ UNCHANGED <<contacts, nextId, createdBy, today, ticks, finder, seen>>

\* Midnight: datetime.now().date() moves to the next day.
Tick ==
    /\ ticks < MaxTicks
    /\ today' = NextDay(today)
    /\ ticks' = ticks + 1
    /\ UNCHANGED <<contacts, nextId, createdBy, call, ret, status, finder, seen>>

Next ==
    \/ CreateContact
    \/ UpdateContact
    \/ RemoveContact
    \/ ReadContact
    \/ FindContactBySomeInfo
    \/ FindBirthdayPerWeek
    \/ Tick

Spec == Init /\ [][Next]_vars

(* -------- GET /contacts/find/{some_info}, one store query at a time ----- *)

\* The request starts and runs the first-name query.
FindFirstName ==
    \E u \in Users, some_info \in Fragments, iso \in Isolations :
        /\ finder.pc = "idle"
        /\ finder' = [pc |-> "second_name", user |-> u, some_info |-> some_info,
                      response |-> LikeByOwner(contacts, "first_name",
                                               some_info, u),
                      isolation |-> iso, begin |-> contacts]
        /\ seen' = {contacts}
        /\ UNCHANGED <<contacts, nextId, createdBy, today, ticks, call, ret,
                       status>>

\* Variant of FindSecondName that repeats the email query.
FindSecondName_email ==
    /\ finder.pc = "second_name"
    /\ finder' = [finder EXCEPT
                     !.pc = "email",
                     !.response = finder.response
                        \o LikeByOwner(SessionRead(contacts), "email",
                                       finder.some_info, finder.user)]
    /\ UNCHANGED <<contacts, nextId, createdBy, today, ticks, call, ret,
                   status, seen>>

\* The second-name query.
FindSecondName ==
    /\ finder.pc = "second_name"
    /\ finder' = [finder EXCEPT
                     !.pc = "email",
                     !.response = finder.response
                        \o LikeByOwner(SessionRead(contacts), "second_name",
                                       finder.some_info, finder.user)]
    /\ UNCHANGED <<contacts, nextId, createdBy, today, ticks, call, ret,
                   status, seen>>

\* The email query; the request returns and the route answers.
FindEmail ==
    /\ finder.pc = "email"
    /\ ret' = List(finder.response
                     \o LikeByOwner(SessionRead(contacts), "email",
                                    finder.some_info, finder.user))
    /\ call' = Call("get_contact_by_some_info", finder.user, 0,
                    finder.some_info, 0, NoBody, NoDate)
    /\ status' = RouteStatus(ret')
    /\ finder' = Idle
    /\ UNCHANGED <<contacts, nextId, createdBy, today, ticks, seen>>

\* The user whose requests are followed when requests overlap, and the
\* fragments that user searches for: one without and one with a wildcard.
ConcUsers == {1}

ConcFragments == { <<"a", "b">>, <<"_">> }

\* A find request whose queries interleave with the commits of other
\* requests of the same user.
NextConc ==
    \/ CreateContact /\ call'.user \in ConcUsers
    \/ UpdateContact /\ call'.user \in ConcUsers
    \/ RemoveContact /\ call'.user \in ConcUsers
    \/ FindFirstName /\ finder'.user \in ConcUsers
                     /\ finder'.some_info \in ConcFragments
    \/ FindSecondName
    \/ FindEmail

SpecConc == Init /\ [][NextConc]_vars

(* ------------------------------ properties ----------------------------- *)

IsFind == call.op = "get_contact_by_some_info"

IsBirthday == call.op = "get_birthday_per_week"

\* The contacts the table holds for the caller of the last call.
Owned == AllByOwner(contacts, call.user)

\* Number of positions of sequence s that hold x.
Occurrences(s, x) == Cardinality({i \in 1..Len(s) : s[i] = x})

\* Position of the row with the given id in the table (0 when absent).
Pos(id) ==
    IF \E i \in 1..Len(contacts) : contacts[i].id = id
    THEN CHOOSE i \in 1..Len(contacts) : contacts[i].id = id
    ELSE 0

\* C1: every stored contact's owner reference (user_id) equals the id of
\* the user who created it, after any sequence of create, update and remove
\* calls by any users.
C1_OwnerIsCreator ==
    \A i \in 1..Len(contacts) : contacts[i].user_id = createdBy[contacts[i].id]

\* C2: every contact returned by get_contact_by_some_info(F, U) is owned by
\* U and contains F, taken literally, as a substring of its first name,
\* second name or email.
C2_FindLiteral ==
    IsFind =>
        /\ ret.kind = "list"
        /\ \A i \in 1..Len(ret.val) :
              /\ ret.val[i].user_id = call.user
              /\ \/ Contains(ret.val[i].first_name, call.some_info)
                 \/ Contains(ret.val[i].second_name, call.some_info)
                 \/ Contains(ret.val[i].email, call.some_info)

\* s lists, once each and in store order, exactly the caller's contacts
\* whose given field matches the fragment of the last call.
IsMatchList(s, field) ==
    /\ \A i \in 1..Len(s) :
          /\ \E j \in 1..Len(contacts) : contacts[j] = s[i]
          /\ s[i].user_id = call.user
          /\ Like(s[i][field], call.some_info)
    /\ \A j \in 1..Len(contacts) :
          (contacts[j].user_id = call.user
             /\ Like(contacts[j][field], call.some_info))
          => Occurrences(s, contacts[j]) = 1
    /\ \A i \in 1..Len(s), k \in 1..Len(s) :
          i < k => Pos(s[i].id) < Pos(s[k].id)

InWindow(days) ==
    SelectSeq(Owned,
              LAMBDA c : /\ CanReplaceYear(c.birthday, call.now.y)
                         /\ DateSub(ReplaceYear(c.birthday, call.now.y), call.now)
                               \in 0..days)

\* C4: for every owner U, window W >= 0 and current date,
\* get_birthday_per_week(W, U) returns exactly the contacts of U whose
\* birthday with the year replaced by today's year lies 0..W days after
\* today, each once and in store order.
C4_BirthdayExact ==
    (IsBirthday /\ call.days >= 0) => ret = List(InWindow(call.days))

InNextYearPart(dt, days) ==
    \E k \in 1..days :
        LET t == AddDays(call.now, k)
        IN  t.y = call.now.y + 1 /\ t.m = dt.m /\ t.d = dt.d

C6_TodayPlusK ==
    (IsBirthday /\ call.days >= 0 /\ ret.kind = "list") =>
        \A i \in 1..Len(Owned) : \A k \in 0..(MaxWindow + 1) :
            Owned[i].birthday = AddDays(call.now, k)
            => (Occurrences(ret.val, Owned[i]) = 1 <=> k <= call.days)

\* C7: get_contact_by_some_info and get_birthday_per_week (W >= 0) end by
\* returning a sequence for every stored contact set and current date; no
\* exception of their own leaves them.
C7_QueriesReturnSequence ==
    (IsFind \/ (IsBirthday /\ call.days >= 0)) => ret.kind = "list"

\* C8: get_contact_by_some_info and get_birthday_per_week are read-only:
\* the stored contacts and all their fields are the same after the call.
C8_QueriesReadOnly ==
    [][(ticks' = ticks
          /\ call'.op \in {"get_contact_by_some_info", "get_birthday_per_week"})
       => (contacts' = contacts /\ nextId' = nextId)]_vars

\* C8 witness: a query answered with contacts of a table of two rows.
C8_Witness ==
    /\ IsFind \/ IsBirthday
    /\ ret.kind = "list"
    /\ ret.val # <<>>
    /\ Len(contacts) = 2

\* C9: the find and birthday routes answer 404 whenever the repository
\* query yields no contacts for the current user, and the list otherwise.
C9_EmptyIs404 ==
    ((IsFind \/ IsBirthday) /\ ret.kind = "list") =>
        (status = IF ret.val = <<>> THEN 404 ELSE 200)

\* C10: update_contact and remove_contact called by U with an id that does
\* not exist or is not owned by U return None and leave the store as it
\* was; a contact owned by another user is never changed or deleted by U's
\* call.
C10_NotOwnedUntouched ==
    [][(ticks' = ticks /\ call'.op \in {"update_contact", "remove_contact"})
       => /\ (~ \E i \in 1..Len(contacts) :
                   /\ contacts[i].id = call'.contact_id
                   /\ contacts[i].user_id = call'.user)
             => (ret' = None /\ contacts' = contacts /\ nextId' = nextId)
          /\ \A i \in 1..Len(contacts) :
                contacts[i].user_id # call'.user
                => \E j \in 1..Len(contacts') : contacts'[j] = contacts[i]]_vars

\* C10 witness: an update or removal of an existing contact by a user who
\* does not own it returned None.
C10_Witness ==
    /\ call.op \in {"update_contact", "remove_contact"}
    /\ ret = None
    /\ \E i \in 1..Len(contacts) :
          /\ contacts[i].id = call.contact_id
          /\ contacts[i].user_id # call.user
          /\ contacts[i].user_id \in Users

\* C11: a successful update_contact(id, body) by the owner replaces the
\* contact in full: afterwards the stored contact with that id has first
\* name, second name, email, phone, birthday and description equal to
\* body's, its id is the same, every other contact is as it was, and the
\* returned contact is that stored record.
C11_FullReplace ==
    [][(ticks' = ticks /\ call'.op = "update_contact" /\ ret'.kind = "contact")
       => /\ Len(contacts') = Len(contacts)
          /\ \E i \in 1..Len(contacts) :
                /\ contacts[i].id = call'.contact_id
                /\ contacts[i].user_id = call'.user
                /\ contacts'[i].id = call'.contact_id
                /\ contacts'[i].first_name = call'.body.first_name
                /\ contacts'[i].second_name = call'.body.second_name
                /\ contacts'[i].email = call'.body.email
                /\ contacts'[i].phone = call'.body.phone
                /\ contacts'[i].birthday = call'.body.birthday
                /\ contacts'[i].description = call'.body.description
                /\ ret'.val = <<contacts'[i]>>
                /\ \A j \in 1..Len(contacts) :
                      j # i => contacts'[j] = contacts[j]]_vars

\* C11 witness: an update succeeded on a table of two rows and the stored
\* row carries the body of the call, which changed its phone.
C11_Witness ==
    /\ call.op = "update_contact"
    /\ ret.kind = "contact"
    /\ Len(contacts) = 2
    /\ \E i \in 1..Len(contacts) :
          /\ contacts[i].id = call.contact_id
          /\ contacts[i].phone = call.body.phone
          /\ contacts[i].phone # <<"1">>
          /\ ret.val = <<contacts[i]>>

\* A find request that ran query by query has returned.
FindReturned == IsFind /\ finder.pc = "idle" /\ seen # {}

====
